---- MODULE Spec2Model ----
(***************************************************************************)
(* Workspace Manager (src/main.py): version resolution from git tags,      *)
(* artifact manifests and their verification, subtree synchronisation and  *)
(* the release orchestration.                                              *)
(*                                                                         *)
(* Python strings are sequences of one-character strings, so that the     *)
(* regular expressions, int(), str() and the string order of sorted() are  *)
(* modelled by what they do.  A Python call either returns or raises: the  *)
(* outcome of a call is a record with the exception's name in exc ("" when *)
(* the call returned).                                                     *)
(***************************************************************************)
EXTENDS Integers, Sequences, FiniteSets, TLC

VARIABLES
    tags,       \* tags[r]: the set of tag names `git tag` lists in repository r
    call,       \* the last VersionResolver call and its outcome
    builds,     \* ws_config["builds"]: repository key -> declared outputs
    cwdIsRoot,  \* whether the process runs in the workspace root
    rel,        \* rel[p]: the release() invocation of process p
    released,   \* how many times release() has been called
    lastHotfix, \* the last hotfix version release() resolved, and its rank
    hotfixCount,\* per base: how many hotfix releases have resolved a version
    fs,         \* the files under the artifact root: path -> content
    artHead,    \* the files in the artifact repository's last commit
    superHead,  \* whether HEAD of the aggregating repository resolves
    superTree,  \* per prefix: the child revision in HEAD's tree, 0 if absent
    superWork,  \* the aggregating repository's working tree
    childRev,   \* per prefix: the revision of the child's default branch
    sync,       \* the last sync_to_super call and its outcome
    quiet,      \* the prefix just synchronised, "" once anything else happened
    built,      \* the last build() call: its destination and what it returned
    nbuilds,    \* how many times build() has been called
    clock,      \* datetime.now(): the number of manifests written so far
    manifested, \* per release directory: its files as write_manifest left them
    edits,      \* how many files were changed or deleted behind the program
    vr          \* the report of the last verification; none once fs changes

verVars == <<tags, call>>
cfgVars == <<builds, cwdIsRoot>>
relVars == <<rel, released, lastHotfix, hotfixCount>>
fsVars == <<fs, artHead>>
syncVars == <<superHead, superTree, superWork, childRev, sync, quiet>>
vfyVars == <<built, nbuilds, clock, manifested, edits, vr>>

vars == <<verVars, cfgVars, relVars, fsVars, syncVars, vfyVars>>

\* The repositories of the workspace, by repository key (group/name)
Repos == {"node/a", "node/b"}

\* A working directory handed to subprocess: a repository of the workspace,
\* or a path that names no directory
Dir(r) == [exists |-> TRUE, repo |-> r]
NoDir == [exists |-> FALSE, repo |-> "node/a"]

\* The outcome of a Python call: it returned ret, or raised exc
Returned(v) == [ret |-> v, exc |-> "", msg |-> ""]
Raised(e, m) == [ret |-> <<>>, exc |-> e, msg |-> m]

----------------------------------------------------------------------------
(* Characters and Python's str / int conversions *)

Digits == {"0", "1", "2", "3", "4", "5", "6", "7", "8", "9"}

\* ord(c) for the characters that occur in the modelled tag names
Ord(c) ==
    CASE c = "-" -> 45 [] c = "." -> 46
      [] c = "0" -> 48 [] c = "1" -> 49 [] c = "2" -> 50 [] c = "3" -> 51
      [] c = "4" -> 52 [] c = "5" -> 53 [] c = "6" -> 54 [] c = "7" -> 55
      [] c = "8" -> 56 [] c = "9" -> 57
      [] c = "c" -> 99 [] c = "f" -> 102 [] c = "h" -> 104 [] c = "i" -> 105
      [] c = "o" -> 111 [] c = "r" -> 114 [] c = "t" -> 116 [] c = "v" -> 118
      [] c = "x" -> 120

DigitVal(c) == Ord(c) - 48

DigitChar(d) == CHOOSE c \in Digits : DigitVal(c) = d

\* \d+ : a non-empty run of digits
AllDigits(s) == Len(s) > 0 /\ \A i \in 1..Len(s) : s[i] \in Digits

\* int(s) for a digit string s (leading zeros are accepted and dropped)
RECURSIVE PyInt(_)
PyInt(s) ==
    IF s = <<>> THEN 0
    ELSE 10 * PyInt(SubSeq(s, 1, Len(s) - 1)) + DigitVal(s[Len(s)])

\* str(n), the decimal numeral an f-string writes for a non-negative int
RECURSIVE PyStr(_)
PyStr(n) ==
    IF n < 10 THEN <<DigitChar(n)>>
    ELSE PyStr(n \div 10) \o <<DigitChar(n % 10)>>

\* a < b for Python strings: code point by code point, a proper prefix first
RECURSIVE StrLess(_, _)
StrLess(a, b) ==
    IF b = <<>> THEN FALSE
    ELSE IF a = <<>> THEN TRUE
    ELSE IF Ord(Head(a)) < Ord(Head(b)) THEN TRUE
    ELSE IF Ord(Head(a)) > Ord(Head(b)) THEN FALSE
    ELSE StrLess(Tail(a), Tail(b))

\* the first index of character c in s, 0 when there is none
RECURSIVE IndexOf(_, _)
IndexOf(s, c) ==
    IF s = <<>> THEN 0
    ELSE IF Head(s) = c THEN 1
    ELSE LET k == IndexOf(Tail(s), c) IN IF k = 0 THEN 0 ELSE k + 1

\* s split at every "."
RECURSIVE SplitDot(_)
SplitDot(s) ==
    LET k == IndexOf(s, ".") IN
    IF k = 0 THEN <<s>>
    ELSE <<SubSeq(s, 1, k - 1)>> \o SplitDot(SubSeq(s, k + 1, Len(s)))

----------------------------------------------------------------------------
(* The tag grammar: SEMVER and HOTFIX, matched with re.match *)

NoMatch == [ok |-> FALSE, g |-> <<>>]

\* SEMVER.match(t): v(\d+)\.(\d+)\.(\d+)$ anchored at the start; g holds the
\* three groups
SEMVER(t) ==
    IF Len(t) = 0 \/ Head(t) # "v" THEN NoMatch
    ELSE LET parts == SplitDot(Tail(t)) IN
         IF Len(parts) = 3 /\ \A i \in 1..3 : AllDigits(parts[i])
         THEN [ok |-> TRUE, g |-> parts]
         ELSE NoMatch

HotfixInfix == <<"-", "h", "o", "t", "f", "i", "x", ".">>

\* HOTFIX.match(t): (v\d+\.\d+\.\d+)-hotfix\.(\d+)$ ; g holds group 1 (the
\* base) and group 2 (the ordinal's digits).  Group 1 holds no "-", so the
\* first "-" of t is where the infix must start.
HOTFIX(t) ==
    LET k == IndexOf(t, "-") IN
    IF k = 0 THEN NoMatch
    ELSE LET base == SubSeq(t, 1, k - 1)
             rest == SubSeq(t, k, Len(t))
             n    == Len(HotfixInfix)
         IN IF /\ SEMVER(base).ok
               /\ Len(rest) > n
               /\ SubSeq(rest, 1, n) = HotfixInfix
               /\ AllDigits(SubSeq(rest, n + 1, Len(rest)))
            THEN [ok |-> TRUE, g |-> <<base, SubSeq(rest, n + 1, Len(rest))>>]
            ELSE NoMatch

----------------------------------------------------------------------------
(* VersionResolver: latest_version, bump_version, next_hotfix *)

\* f"v{major}.{minor}.{patch}"
FormatVersion(major, minor, patch) ==
    <<"v">> \o PyStr(major) \o <<".">> \o PyStr(minor) \o <<".">> \o PyStr(patch)

\* f"{base}-hotfix.{n}"
FormatHotfix(base, n) == base \o HotfixInfix \o PyStr(n)

\* subprocess.check_output(["git", "tag"], cwd=...).splitlines(): the tag
\* names of the repository; a cwd that is no directory raises
GitTagList(cwd) ==
    IF cwd.exists THEN [ok |-> TRUE, tags |-> tags[cwd.repo]]
    ELSE [ok |-> FALSE, tags |-> {}]

\* sorted(versions)[-1]: the greatest string under Python's string order
SortedLast(versions) ==
    CHOOSE v \in versions : \A w \in versions : w = v \/ StrLess(w, v)

latest_version(cwd) ==
    LET listed == GitTagList(cwd)
        versions == {t \in listed.tags : SEMVER(t).ok \/ HOTFIX(t).ok}
    IN IF ~listed.ok THEN Raised("FileNotFoundError", "cwd")
       ELSE IF versions # {} THEN Returned(SortedLast(versions))
       ELSE Returned(FormatVersion(0, 0, 0))

\* bump_version with the minor bump keeping the patch component
bump_version_keeps_patch(cwd, bump) ==
    LET base == latest_version(cwd)
        m == SEMVER(base.ret)
        major == PyInt(m.g[1])
        minor == PyInt(m.g[2])
        patch == PyInt(m.g[3])
    IN IF base.exc # "" THEN base
       ELSE IF ~m.ok THEN Raised("WMException", "Cannot bump non-semver base")
       ELSE CASE bump = "major" -> Returned(FormatVersion(major + 1, 0, 0))
              [] bump = "minor" -> Returned(FormatVersion(major, minor + 1, patch))
              [] bump = "patch" -> Returned(FormatVersion(major, minor, patch + 1))
              [] OTHER -> Raised("WMException", "Unknown bump keyword")

bump_version(cwd, bump) ==
    LET base == latest_version(cwd)
        m == SEMVER(base.ret)
        major == PyInt(m.g[1])
        minor == PyInt(m.g[2])
        patch == PyInt(m.g[3])
    IN IF base.exc # "" THEN base
       ELSE IF ~m.ok THEN Raised("WMException", "Cannot bump non-semver base")
       ELSE CASE bump = "major" -> Returned(FormatVersion(major + 1, 0, 0))
              [] bump = "minor" -> Returned(FormatVersion(major, minor + 1, 0))
              [] bump = "patch" -> Returned(FormatVersion(major, minor, patch + 1))
              [] OTHER -> Raised("WMException", "Unknown bump keyword")

\* max(hotfixes) for a non-empty set of ints
MaxOf(S) == CHOOSE x \in S : \A y \in S : y <= x

\* next_hotfix counting the hotfix tags of the base instead of taking the
\* greatest ordinal
next_hotfix_counts(base, cwd) ==
    LET listed == GitTagList(cwd)
        hotfixes == {PyInt(HOTFIX(t).g[2]) :
                        t \in {u \in listed.tags : HOTFIX(u).ok /\ HOTFIX(u).g[1] = base}}
    IN IF ~listed.ok THEN Raised("FileNotFoundError", "cwd")
       ELSE Returned(FormatHotfix(base, Cardinality(hotfixes) + 1))

next_hotfix(base, cwd) ==
    LET listed == GitTagList(cwd)
        hotfixes == {PyInt(HOTFIX(t).g[2]) :
                        t \in {u \in listed.tags : HOTFIX(u).ok /\ HOTFIX(u).g[1] = base}}
        n == IF hotfixes # {} THEN MaxOf(hotfixes) + 1 ELSE 1
    IN IF ~listed.ok THEN Raised("FileNotFoundError", "cwd")
       ELSE Returned(FormatHotfix(base, n))

----------------------------------------------------------------------------
(* The tag names and arguments the model draws its inputs from *)

\* The hotfix ordinals 1..MaxOrd of base v1.2.0 are in the pool (and 10)
MaxOrd == 2

V_1_2   == <<"v", "1", ".", "2">>
XV_1_2_0 == <<"x", "v", "1", ".", "2", ".", "0">>
V_01_2_0 == <<"v", "0", "1", ".", "2", ".", "0">>

StandardPool ==
    {FormatVersion(1, 2, 0), FormatVersion(1, 10, 0), FormatVersion(1, 2, 3), V_01_2_0}

HotfixPool ==
    {FormatHotfix(FormatVersion(1, 2, 0), n) : n \in (1..MaxOrd) \cup {10}}
        \cup {FormatHotfix(FormatVersion(1, 10, 0), 1)}

\* tag names matching neither grammar
OtherPool == {V_1_2, XV_1_2_0}

TagPool == StandardPool \cup HotfixPool \cup OtherPool

\* args[0] of the release command: the bump keyword
BumpArgs == {"major", "minor", "patch", "micro"}

\* args[0] of the release-hotfix command: the base
BaseArgs ==
    {FormatVersion(1, 2, 0), FormatVersion(1, 10, 0), V_1_2,
     FormatHotfix(FormatVersion(1, 2, 0), 1)}

NoCall == [fn |-> "none", repo |-> "node/a", bump |-> "", base |-> <<>>,
           ret |-> <<>>, exc |-> "", msg |-> ""]

CallRecord(fn, repo, bump, base, out) ==
    [fn |-> fn, repo |-> repo, bump |-> bump, base |-> base,
     ret |-> out.ret, exc |-> out.exc, msg |-> out.msg]

----------------------------------------------------------------------------
(* Workspace configuration and the artifact tree *)

ARTIFACT_REPO_NAME == "artifacts"

\* The subtree prefixes: a child's path relative to the workspace root
Prefixes == Repos \cup {ARTIFACT_REPO_NAME}

\* cfg["outputs"]: paths relative to the repository, as <<directory, name>>
OutputLists ==
    { << <<"out", "a.bin">> >>,
      << <<"out", "a.bin">>, <<"out", "b.bin">> >>,
      << <<"out", "a.bin">>, <<"dist", "a.bin">> >>,
      << <<"out", "a.bin">>, <<"out", "manifest.json">> >> }

FileNames == {"a.bin", "b.bin", "manifest.json"}

\* The release directories of the artifact tree, artifacts/<key>/<version>,
\* as <<key, version>>; a file's path is <<key, version, name>>
DirVersions == {FormatVersion(1, 3, 0), FormatVersion(2, 0, 0)}

ReleaseDirs == Repos \X DirVersions

Paths == Repos \X DirVersions \X FileNames

\* What a file holds: [bytes |-> b] for an artifact, and the manifest record
\* itself for the JSON text write_manifest writes
Bytes == {"b1", "b2"}

IsJson(content) == "artifacts" \in DOMAIN content

\* The empty tree: fs maps the paths that exist to what they hold
NoFiles == <<>>

WriteFile(files, path, content) ==
    [q \in DOMAIN files \cup {path} |-> IF q = path THEN content ELSE files[q]]

RemoveFile(files, path) == [q \in DOMAIN files \ {path} |-> files[q]]

FixedConfig ==
    /\ builds = [r \in Repos |-> << <<"out", "a.bin">> >>]
    /\ cwdIsRoot = TRUE

NoBuild == [key |-> "", version |-> <<>>, outputs |-> <<>>, exc |-> "", line |-> 0]

NoVerify == [fn |-> "", version |-> <<>>, filter |-> [given |-> FALSE, keys |-> {}],
             exc |-> "", line |-> 0, status |-> 0,
             ok |-> {}, missing |-> {}, mismatch |-> {}]

FixedVerify ==
    /\ built = NoBuild
    /\ nbuilds = 0
    /\ clock = 0
    /\ manifested = <<>>
    /\ edits = 0
    /\ vr = NoVerify

FixedFiles == fs = NoFiles /\ artHead = NoFiles /\ FixedVerify

----------------------------------------------------------------------------
(* SubtreeSynchronizer: sync_to_super *)

\* The child revisions the model distinguishes
MaxRev == 2

NoSync == [prefix |-> "", path |-> "", exc |-> "", line |-> 0, repeat |-> FALSE,
           before |-> 0, after |-> 0]

FixedSuper ==
    /\ superHead = TRUE
    /\ superTree = [x \in Prefixes |-> 0]
    /\ superWork = "clean"
    /\ childRev = [x \in Prefixes |-> 1]
    /\ sync = NoSync
    /\ quiet = ""

SyncOutcome(path, exc, line, tree, work) ==
    [path |-> path, exc |-> exc, line |-> line, tree |-> tree, work |-> work]

\* git ls-tree HEAD <prefix> (line 93): exit status 0 whenever HEAD resolves,
\* whether or not the prefix is in the tree; non-zero when HEAD does not
\* resolve.  check_output raises on a non-zero status only.
LsTreeSucceeds(prefix) == superHead

\* git subtree add --prefix <prefix> <repo> main (line 99).  The prefix is the
\* child repository's own directory under the workspace root, so the command
\* dies on "prefix already exists".
SubtreeAdd(prefix) ==
    {SyncOutcome("add", "CalledProcessError", 99, superTree, superWork)}

\* git subtree pull --prefix <prefix> <repo> main (line 101): refuses a working
\* tree with modified tracked files, and a prefix that is not in HEAD's tree
\* (unrelated histories); is a no-op when the child's revision is merged
\* already; otherwise merges, or fails on a conflict.
SubtreePull(prefix) ==
    IF superWork = "modified" \/ superTree[prefix] = 0
    THEN {SyncOutcome("pull", "CalledProcessError", 101, superTree, superWork)}
    ELSE IF superTree[prefix] = childRev[prefix]
    THEN {SyncOutcome("pull", "", 101, superTree, superWork)}
    ELSE {SyncOutcome("pull", "", 101,
                      [superTree EXCEPT ![prefix] = childRev[prefix]], superWork),
          SyncOutcome("pull", "CalledProcessError", 101, superTree, superWork)}

\* git add . ; git commit -m "sync: <prefix>" (lines 103-104) after a subtree
\* step that succeeded: the subtree step has committed its own merge, so the
\* commit has something to record only when the working tree holds other
\* changes; with nothing staged git commit exits with status 1.
CommitSync(o) ==
    IF o.exc # "" THEN o
    ELSE IF o.work = "untracked"
    THEN SyncOutcome(o.path, "", 104, o.tree, "clean")
    ELSE SyncOutcome(o.path, "CalledProcessError", 104, o.tree, o.work)

\* The outcomes of sync_to_super(ws_root / prefix, ws_root)
sync_to_super(prefix) ==
    LET exists == LsTreeSucceeds(prefix)
        step == IF ~exists THEN SubtreeAdd(prefix) ELSE SubtreePull(prefix)
    IN {CommitSync(o) : o \in step}

\* The state after sync_to_super(prefix) ended with outcome o
SyncApplied(prefix, o) ==
    /\ superTree' = o.tree
    /\ superWork' = o.work
    /\ sync' = [prefix |-> prefix, path |-> o.path, exc |-> o.exc, line |-> o.line,
                repeat |-> (quiet = prefix),
                before |-> superTree[prefix], after |-> o.tree[prefix]]
    /\ quiet' = IF o.exc = "" THEN prefix ELSE ""
    /\ UNCHANGED <<superHead, childRev>>

Call_sync_to_super(prefix) ==
    /\ \E o \in sync_to_super(prefix) : SyncApplied(prefix, o)
    /\ UNCHANGED <<verVars, cfgVars, relVars, fsVars, vfyVars>>

\* A commit lands on the default branch of a child repository
ChildCommit(prefix) ==
    /\ childRev[prefix] < MaxRev
    /\ childRev' = [childRev EXCEPT ![prefix] = @ + 1]
    /\ quiet' = ""
    /\ UNCHANGED <<superHead, superTree, superWork, sync>>
    /\ UNCHANGED <<verVars, cfgVars, relVars, fsVars, vfyVars>>

\* The operator edits the aggregating repository's working tree
SuperEdit(w) ==
    /\ superWork # w
    /\ superWork' = w
    /\ quiet' = ""
    /\ UNCHANGED <<superHead, superTree, childRev, sync>>
    /\ UNCHANGED <<verVars, cfgVars, relVars, fsVars, vfyVars>>

----------------------------------------------------------------------------
(* Builder and ManifestWriter: build, write_manifest, sha256 *)

MAIN_BRANCH == "main"

\* How many build() calls, manifests written and files edited by hand a
\* behaviour holds
MaxBuilds == 2
MaxClock == 2
MaxEdits == 1

\* hashlib.sha256 over the file's bytes, as hexdigest(): distinct contents
\* have distinct digests
Digest(content) == <<"sha256", content>>

\* sha256(path), lines 109-117: path.open raises when the file is missing
sha256(files, path) ==
    IF path \in DOMAIN files THEN [exc |-> "", hex |-> Digest(files[path])]
    ELSE [exc |-> "FileNotFoundError", hex |-> <<>>]

BuildOutcome(exc, line, outputs, files) ==
    [exc |-> exc, line |-> line, outputs |-> outputs, files |-> files]

\* Lines 207-213: cp of each declared output to dest / src.name, in order;
\* work[out] is what the build left at repo / out ("" for nothing)
RECURSIVE CopyOutputs(_, _, _, _, _)
CopyOutputs(outs, dest, work, files, done) ==
    IF outs = <<>> THEN BuildOutcome("", 215, done, files)
    ELSE LET out == Head(outs)
             tgt == <<dest[1], dest[2], out[2]>>
         IN IF work[out] = ""
            THEN BuildOutcome("CalledProcessError", 212, done, files)
            ELSE CopyOutputs(Tail(outs), dest, work,
                             WriteFile(files, tgt, [bytes |-> work[out]]),
                             Append(done, tgt))

\* build(repo, cfg, dest): cmdOk is the exit status of cfg["cmd"]
build(outputs, dest, cmdOk, work, files) ==
    IF ~cmdOk THEN BuildOutcome("CalledProcessError", 204, <<>>, files)
    ELSE CopyOutputs(outputs, dest, work, files, <<>>)

\* write_manifest(repo, version, artifact_dir, outputs, mode): the tree with
\* the manifest written, or the exception of sha256 on a missing output
write_manifest(repo, version, artifact_dir, outputs, mode, now, files) ==
    LET names == {outputs[i][3] : i \in DOMAIN outputs}
        last(n) == CHOOSE i \in DOMAIN outputs :
                      /\ outputs[i][3] = n
                      /\ \A j \in DOMAIN outputs : outputs[j][3] = n => j <= i
        artifacts == [n \in names |-> [sha256 |-> sha256(files, outputs[last(n)]).hex]]
        manifest == [repo |-> repo, version |-> version, mode |-> mode,
                     timestamp |-> now,
                     source |-> [commit |-> "HEAD", branch |-> MAIN_BRANCH],
                     artifacts |-> artifacts]
    IN IF \E i \in DOMAIN outputs : sha256(files, outputs[i]).exc # ""
       THEN [exc |-> "FileNotFoundError", line |-> 182, files |-> files]
       ELSE [exc |-> "", line |-> 198,
             files |-> WriteFile(files, <<artifact_dir[1], artifact_dir[2], "manifest.json">>,
                                 manifest)]

\* The files of release directory d: name -> content
DirFiles(files, d) ==
    [n \in {m \in FileNames : <<d[1], d[2], m>> \in DOMAIN files} |-> files[<<d[1], d[2], n>>]]

\* ARTIFACT_REPO_NAME is bound to a str at line 22 and never rebound: it has
\* no rglob attribute (line 425) and no / operator with a str (line 383)
ArtifactRootIsPath == FALSE

----------------------------------------------------------------------------
(* ReleaseOrchestrator: release, one step of the function per action *)

Procs == {1, 2}

\* The processes of a single operator, who runs one release after another
Sequential == {1}

\* How many times release() is called in a behaviour
MaxReleases == 2

\* repos: a non-empty list of distinct repositories
Selections ==
    {sel \in UNION {[1..n -> Repos] : n \in 1..Cardinality(Repos)} :
        \A i, j \in DOMAIN sel : i # j => sel[i] # sel[j]}

\* hotfix_base as the release-hotfix command passes it: args[0], any string
ReleaseBases == {FormatVersion(1, 2, 0), FormatVersion(1, 10, 0), V_1_2}

\* release(repos, ws_config, bump=...) or release(repos, ws_config,
\* hotfix_base=...); None and the empty string are "" and <<>>
ReleaseArgs ==
    {[bump |-> b, base |-> <<>>] : b \in BumpArgs \cup {""}}
        \cup {[bump |-> "", base |-> B] : B \in ReleaseBases}

\* log: the steps the invocation has begun, in order, as <<step, repository>>
Idle == [pc |-> "idle", repos |-> <<>>, mode |-> "", bump |-> "", base |-> <<>>,
         version |-> <<>>, i |-> 0, exc |-> "", line |-> 0, log |-> <<>>]

NoHotfix == [base |-> <<>>, version |-> <<>>, rank |-> 0]

FixedRelease ==
    /\ rel = [p \in Procs |-> Idle]
    /\ released = 0
    /\ lastHotfix = NoHotfix
    /\ hotfixCount = [B \in ReleaseBases |-> 0]

\* A version string handed to subprocess as cwd (line 371 passes base, the
\* latest tag, where bump_version takes the repository): a relative path that
\* names no directory
StrAsCwd(s) == NoDir

\* Lines 364-372: the version and the mode, or the exception raised
ResolveVersion(repo0, bump, hotfix_base) ==
    LET base == latest_version(Dir(repo0)) IN
    IF base.exc # "" THEN [out |-> base, mode |-> "", line |-> 365]
    ELSE IF hotfix_base # <<>>
    THEN [out |-> next_hotfix(hotfix_base, Dir(repo0)), mode |-> "hotfix", line |-> 368]
    ELSE [out |-> bump_version(StrAsCwd(base.ret), bump), mode |-> "release", line |-> 371]

\* An invocation that notes the exception and carries on where it was
Failed_keeps_running(r, exc, line) == [r EXCEPT !.exc = exc, !.line = line]

\* An exception leaves release(): nothing catches it, the invocation is over
Failed(r, exc, line) == [r EXCEPT !.pc = "failed", !.exc = exc, !.line = line]

\* The invocation begins a step
Step(r, name, key) == [r EXCEPT !.log = Append(@, <<name, key>>)]

\* The loop variable moves on, or the loop is left for pc
Advance(r, pc) ==
    IF r.i < Len(r.repos) THEN [r EXCEPT !.i = @ + 1] ELSE [r EXCEPT !.pc = pc, !.i = 1]

\* release() is entered: lines 363-372
Call_release(p, repos, bump, hotfix_base) ==
    /\ rel[p].pc \in {"idle", "done", "failed"}
    /\ released < MaxReleases
    /\ released' = released + 1
    /\ LET v == ResolveVersion(repos[1], bump, hotfix_base)
           started == [Idle EXCEPT !.repos = repos, !.bump = bump, !.base = hotfix_base]
       IN /\ rel' = [rel EXCEPT ![p] =
                        IF v.out.exc # "" THEN Failed(started, v.out.exc, v.line)
                        ELSE [started EXCEPT !.pc = "checkout", !.mode = v.mode,
                                             !.version = v.out.ret, !.i = 1]]
          /\ IF v.out.exc = "" /\ v.mode = "hotfix"
             THEN /\ hotfixCount' = [hotfixCount EXCEPT ![hotfix_base] = @ + 1]
                  /\ lastHotfix' = [base |-> hotfix_base, version |-> v.out.ret,
                                    rank |-> hotfixCount[hotfix_base] + 1]
             ELSE UNCHANGED <<hotfixCount, lastHotfix>>
    /\ UNCHANGED <<verVars, cfgVars, fsVars, syncVars, vfyVars>>

\* A first loop that is left for the second after its first repository
Release_checkout_first_only(p) ==
    /\ rel[p].pc = "checkout"
    /\ \E ok \in BOOLEAN :
          LET begun == Step(rel[p], "checkout", rel[p].repos[rel[p].i]) IN
          rel' = [rel EXCEPT ![p] =
                     IF ~ok THEN Failed(begun, "CalledProcessError", 375)
                     ELSE [begun EXCEPT !.pc = "loop", !.i = 1]]
    /\ UNCHANGED <<released, lastHotfix, hotfixCount>>
    /\ UNCHANGED <<verVars, cfgVars, fsVars, syncVars, vfyVars>>

\* Lines 374-376, one repository: git checkout main; git pull
Release_checkout(p) ==
    /\ rel[p].pc = "checkout"
    /\ \E ok \in BOOLEAN :
          LET begun == Step(rel[p], "checkout", rel[p].repos[rel[p].i]) IN
          rel' = [rel EXCEPT ![p] =
                     IF ~ok THEN Failed(begun, "CalledProcessError", 375)
                     ELSE Advance(begun, "loop")]
    /\ UNCHANGED <<released, lastHotfix, hotfixCount>>
    /\ UNCHANGED <<verVars, cfgVars, fsVars, syncVars, vfyVars>>

RepoOutcome(exc, line, steps, files, tagged, wrote) ==
    [exc |-> exc, line |-> line, steps |-> steps, files |-> files,
     tagged |-> tagged, wrote |-> wrote]

\* Lines 384-395 for the repository key with release directory dest: build,
\* write_manifest, git tag -a (fails when the tag exists), git push --tags
ReleaseRepoSteps(r, key, dest) ==
    LET outs == builds[key]
        all == <<"build", "manifest", "tag", "push">>
        after(cmdOk, work) ==
            LET b == build(outs, dest, cmdOk, work, fs)
                m == write_manifest(key, r.version, dest, b.outputs, r.mode, clock, b.files)
            IN IF b.exc # ""
               THEN {RepoOutcome(b.exc, 384, SubSeq(all, 1, 1), b.files, FALSE, FALSE)}
               ELSE IF m.exc # ""
               THEN {RepoOutcome(m.exc, 386, SubSeq(all, 1, 2), m.files, FALSE, FALSE)}
               ELSE IF r.version \in tags[key]
               THEN {RepoOutcome("CalledProcessError", 394, SubSeq(all, 1, 3), m.files,
                                 FALSE, TRUE)}
               ELSE {RepoOutcome("", 395, all, m.files, TRUE, TRUE),
                     RepoOutcome("CalledProcessError", 395, all, m.files, TRUE, TRUE)}
    IN UNION {after(cmdOk, work) :
                 cmdOk \in BOOLEAN,
                 work \in [{outs[i] : i \in DOMAIN outs} -> Bytes \cup {""}]}

\* Lines 378-395, one repository.  A repository without build configuration
\* is passed over (line 381).  For one with a configuration line 383 divides
\* ARTIFACT_REPO_NAME, a str, by the key, a str: TypeError, before build(),
\* write_manifest() and the tag of lines 384-395.
Release_repo(p) ==
    /\ rel[p].pc = "loop"
    /\ LET r == rel[p]
           key == r.repos[r.i]
           dest == <<key, r.version>>
           turned == Step(r, "loop", key)
       IN IF key \notin DOMAIN builds
          THEN /\ rel' = [rel EXCEPT ![p] = Advance(turned, "publish")]
               /\ UNCHANGED <<tags, fs, clock, manifested>>
          ELSE IF ~ArtifactRootIsPath
          THEN /\ rel' = [rel EXCEPT ![p] = Failed(turned, "TypeError", 383)]
               /\ UNCHANGED <<tags, fs, clock, manifested>>
          ELSE \E o \in ReleaseRepoSteps(r, key, dest) :
                  LET done == [turned EXCEPT !.log =
                                  @ \o [k \in DOMAIN o.steps |-> <<o.steps[k], key>>]]
                  IN /\ rel' = [rel EXCEPT ![p] =
                                   IF o.exc # "" THEN Failed(done, o.exc, o.line)
                                   ELSE Advance(done, "publish")]
                     /\ fs' = o.files
                     /\ tags' = IF o.tagged
                                THEN [tags EXCEPT ![key] = @ \cup {r.version}]
                                ELSE tags
                     /\ clock' = IF o.wrote THEN clock + 1 ELSE clock
                     /\ manifested' =
                           IF ~o.wrote THEN manifested
                           ELSE [e \in DOMAIN manifested \cup {dest} |->
                                    IF e = dest THEN DirFiles(o.files, dest)
                                    ELSE manifested[e]]
    /\ UNCHANGED <<released, lastHotfix, hotfixCount>>
    /\ UNCHANGED <<call, cfgVars, artHead, syncVars, built, nbuilds, edits, vr>>

\* Lines 397-399: git add . ; git commit ; git push with cwd "artifacts", a
\* path relative to the process's directory.  git commit exits with status 1
\* when the tree holds nothing new.
Release_publish(p) ==
    /\ rel[p].pc = "publish"
    /\ LET added == Step(rel[p], "add", ARTIFACT_REPO_NAME)
           committed == Step(added, "commit", ARTIFACT_REPO_NAME)
           pushed == Step(committed, "push", ARTIFACT_REPO_NAME)
       IN IF ~cwdIsRoot
          THEN /\ rel' = [rel EXCEPT ![p] = Failed(added, "FileNotFoundError", 397)]
               /\ UNCHANGED <<artHead, childRev, quiet>>
          ELSE IF fs = artHead
          THEN /\ rel' = [rel EXCEPT ![p] = Failed(committed, "CalledProcessError", 398)]
               /\ UNCHANGED <<artHead, childRev, quiet>>
          ELSE /\ artHead' = fs
               /\ childRev' = [childRev EXCEPT ![ARTIFACT_REPO_NAME] = @ + 1]
               /\ quiet' = ""
               /\ \E ok \in BOOLEAN :
                     rel' = [rel EXCEPT ![p] =
                                IF ok THEN [pushed EXCEPT !.pc = "sync"]
                                ELSE Failed(pushed, "CalledProcessError", 399)]
    /\ UNCHANGED <<released, lastHotfix, hotfixCount, fs>>
    /\ UNCHANGED <<superHead, superTree, superWork, sync>>
    /\ UNCHANGED <<verVars, cfgVars, vfyVars>>

\* Line 401: sync_to_super(ws_config["root"] / ARTIFACT_REPO_NAME, root)
Release_sync(p) ==
    /\ rel[p].pc = "sync"
    /\ \E o \in sync_to_super(ARTIFACT_REPO_NAME) :
          LET begun == Step(rel[p], "sync", ARTIFACT_REPO_NAME) IN
          /\ SyncApplied(ARTIFACT_REPO_NAME, o)
          /\ rel' = [rel EXCEPT ![p] =
                        IF o.exc = "" THEN [begun EXCEPT !.pc = "done"]
                        ELSE Failed(begun, o.exc, o.line)]
    /\ UNCHANGED <<released, lastHotfix, hotfixCount>>
    /\ UNCHANGED <<verVars, cfgVars, fsVars, vfyVars>>

InitRelease ==
    /\ tags \in [Repos -> {{}, {FormatVersion(1, 2, 0)}}]
    /\ call = NoCall
    /\ \E S \in SUBSET Repos : builds = [r \in S |-> << <<"out", "a.bin">> >>]
    /\ cwdIsRoot \in BOOLEAN
    /\ FixedRelease
    /\ fs \in {NoFiles,
               WriteFile(NoFiles, <<"node/a", FormatVersion(1, 3, 0), "a.bin">>,
                         [bytes |-> "b1"])}
    /\ artHead = NoFiles
    /\ FixedVerify
    /\ superHead = TRUE
    /\ superTree \in [Prefixes -> 0..1]
    /\ \A r \in Repos : superTree[r] = 0
    /\ superWork \in {"clean", "untracked"}
    /\ childRev = [x \in Prefixes |-> 1]
    /\ sync = NoSync
    /\ quiet = ""

NextRelease ==
    \/ \E p \in Sequential, sel \in Selections, a \in ReleaseArgs :
          Call_release(p, sel, a.bump, a.base)
    \/ \E p \in Sequential : Release_checkout(p)
    \/ \E p \in Sequential : Release_repo(p)
    \/ \E p \in Sequential : Release_publish(p)
    \/ \E p \in Sequential : Release_sync(p)

SpecRelease == InitRelease /\ [][NextRelease]_vars

(* Specification SpecConcurrent: two operators call release() on the same   *)
(* repositories; the steps of the two invocations interleave                *)

\* What the two operators ask for
ConcurrentArgs ==
    {[bump |-> "minor", base |-> <<>>], [bump |-> "", base |-> FormatVersion(1, 2, 0)]}

InitConcurrent ==
    /\ \E ta \in {{}, {FormatVersion(1, 2, 0)}} :
       \E tb \in {{}, {FormatVersion(1, 2, 0), FormatHotfix(FormatVersion(1, 2, 0), 1)}} :
          tags = [r \in Repos |-> IF r = "node/a" THEN ta ELSE tb]
    /\ call = NoCall
    /\ \E S \in SUBSET Repos : builds = [r \in S |-> << <<"out", "a.bin">> >>]
    /\ cwdIsRoot = TRUE
    /\ FixedRelease
    /\ fs = WriteFile(NoFiles, <<"node/a", FormatVersion(1, 3, 0), "a.bin">>, [bytes |-> "b1"])
    /\ artHead = NoFiles
    /\ FixedVerify
    /\ superHead = TRUE
    /\ superTree \in [Prefixes -> 0..1]
    /\ \A r \in Repos : superTree[r] = 0
    /\ superWork = "untracked"
    /\ childRev = [x \in Prefixes |-> 1]
    /\ sync = NoSync
    /\ quiet = ""

NextConcurrent ==
    \/ \E p \in Procs, sel \in Selections, a \in ConcurrentArgs :
          Call_release(p, sel, a.bump, a.base)
    \/ \E p \in Procs : Release_checkout(p)
    \/ \E p \in Procs : Release_repo(p)
    \/ \E p \in Procs : Release_publish(p)
    \/ \E p \in Procs : Release_sync(p)

SpecConcurrent == InitConcurrent /\ [][NextConcurrent]_vars

(* Specification SpecSync: sync_to_super called on any state of the        *)
(* aggregating repository, children and working tree changing in between   *)

InitSync ==
    /\ superHead \in BOOLEAN
    /\ superTree \in [Prefixes -> 0..1]
    /\ superHead = FALSE => superTree = [x \in Prefixes |-> 0]
    /\ superWork \in {"clean", "untracked", "modified"}
    /\ childRev = [x \in Prefixes |-> 1]
    /\ sync = NoSync
    /\ quiet = ""
    /\ tags = [r \in Repos |-> {}] /\ call = NoCall
    /\ FixedConfig /\ FixedRelease /\ FixedFiles

NextSync ==
    \/ \E x \in Prefixes : Call_sync_to_super(x)
    \/ \E x \in Prefixes : ChildCommit(x)
    \/ \E w \in {"clean", "untracked", "modified"} : SuperEdit(w)

SpecSync == InitSync /\ [][NextSync]_vars

----------------------------------------------------------------------------
(* ReleaseVerifier: verify_release *)

VerifyOutcome(exc, line, status, ok, missing, mismatch) ==
    [exc |-> exc, line |-> line, status |-> status,
     ok |-> ok, missing |-> missing, mismatch |-> mismatch]

\* Lines 426-448 for the manifests rglob would yield: the [OK], missing and
\* hash-mismatch lines printed, each as <<release directory, artifact name>>
VerifyScan(version, repo_filter) ==
    LET found == {d \in ReleaseDirs : <<d[1], d[2], "manifest.json">> \in DOMAIN fs}
        data(d) == fs[<<d[1], d[2], "manifest.json">>]
        kept == {d \in found :
                    /\ IsJson(data(d))
                    /\ data(d).version = version
                    /\ ~(repo_filter.given /\ repo_filter.keys # {}
                           /\ data(d).repo \notin repo_filter.keys)}
        items == {<<d, n>> : d \in kept, n \in FileNames}
        listed == {x \in items : x[2] \in DOMAIN data(x[1]).artifacts}
        path(x) == <<x[1][1], x[1][2], x[2]>>
        missing == {x \in listed : path(x) \notin DOMAIN fs}
        mismatch == {x \in listed \ missing :
                        sha256(fs, path(x)).hex # data(x[1]).artifacts[x[2]].sha256}
        ok == (listed \ missing) \ mismatch
    IN IF \E d \in found : ~IsJson(data(d))
       THEN VerifyOutcome("JSONDecodeError", 426, 1, {}, {}, {})
       ELSE IF missing \cup mismatch # {}
       THEN VerifyOutcome("SystemExit", 451, 1, ok, missing, mismatch)
       ELSE VerifyOutcome("", 451, 0, ok, missing, mismatch)

\* verify_release(version, repo_filter)
verify_release(version, repo_filter) ==
    IF ~ArtifactRootIsPath
    THEN VerifyOutcome("AttributeError", 425, 1, {}, {}, {})
    ELSE VerifyScan(version, repo_filter)

\* repo_filter: None, or a list of repository keys
Filters ==
    {[given |-> FALSE, keys |-> {}]}
        \cup {[given |-> TRUE, keys |-> K] : K \in {{}, {"node/a"}, Repos}}

VerifyReport(fn, version, repo_filter, o) ==
    [fn |-> fn, version |-> version, filter |-> repo_filter,
     exc |-> o.exc, line |-> o.line, status |-> o.status,
     ok |-> o.ok, missing |-> o.missing, mismatch |-> o.mismatch]

\* build(repo, builds[key], artifacts / key / version), with Path arguments
Call_build(key, version) ==
    /\ key \in DOMAIN builds
    /\ nbuilds < MaxBuilds
    /\ nbuilds' = nbuilds + 1
    /\ \E cmdOk \in BOOLEAN :
       \E work \in [{builds[key][i] : i \in DOMAIN builds[key]} -> Bytes \cup {""}] :
          LET o == build(builds[key], <<key, version>>, cmdOk, work, fs) IN
          /\ fs' = o.files
          /\ built' = [key |-> key, version |-> version, outputs |-> o.outputs,
                       exc |-> o.exc, line |-> o.line]
    /\ manifested' = [d \in DOMAIN manifested \ {<<key, version>>} |-> manifested[d]]
    /\ vr' = NoVerify
    /\ UNCHANGED <<artHead, clock, edits>>
    /\ UNCHANGED <<verVars, cfgVars, relVars, syncVars>>

\* write_manifest for the build that has just returned, in its directory
Call_write_manifest(mode) ==
    /\ built.key # "" /\ built.exc = ""
    /\ clock < MaxClock
    /\ LET d == <<built.key, built.version>>
           o == write_manifest(built.key, built.version, d, built.outputs, mode,
                               clock, fs)
       IN /\ fs' = o.files
          /\ clock' = IF o.exc = "" THEN clock + 1 ELSE clock
          /\ manifested' =
                IF o.exc # "" THEN manifested
                ELSE [e \in DOMAIN manifested \cup {d} |->
                         IF e = d THEN DirFiles(o.files, d) ELSE manifested[e]]
          /\ built' = IF o.exc = "" THEN built
                      ELSE [built EXCEPT !.exc = o.exc, !.line = o.line]
    /\ vr' = NoVerify
    /\ UNCHANGED <<artHead, nbuilds, edits>>
    /\ UNCHANGED <<verVars, cfgVars, relVars, syncVars>>

\* Someone changes the bytes of an artifact file
Tamper(path, b) ==
    /\ path \in DOMAIN fs
    /\ ~IsJson(fs[path])
    /\ fs[path].bytes # b
    /\ edits < MaxEdits
    /\ edits' = edits + 1
    /\ fs' = WriteFile(fs, path, [bytes |-> b])
    /\ vr' = NoVerify
    /\ UNCHANGED <<artHead, built, nbuilds, clock, manifested>>
    /\ UNCHANGED <<verVars, cfgVars, relVars, syncVars>>

\* Someone deletes an artifact file
Delete(path) ==
    /\ path \in DOMAIN fs
    /\ ~IsJson(fs[path])
    /\ edits < MaxEdits
    /\ edits' = edits + 1
    /\ fs' = RemoveFile(fs, path)
    /\ vr' = NoVerify
    /\ UNCHANGED <<artHead, built, nbuilds, clock, manifested>>
    /\ UNCHANGED <<verVars, cfgVars, relVars, syncVars>>

\* verify_release(version, repo_filter) called
Call_verify_release(version, repo_filter) ==
    /\ vr' = VerifyReport("verify_release", version, repo_filter,
                          verify_release(version, repo_filter))
    /\ UNCHANGED <<fsVars, built, nbuilds, clock, manifested, edits>>
    /\ UNCHANGED <<verVars, cfgVars, relVars, syncVars>>

\* main(), case "release-verify" (lines 573-576): find_repos(args[1:]) is
\* called without its ws_config argument: TypeError, before verify_release
Main_release_verify(version, selectors) ==
    /\ vr' = VerifyReport("main", version, [given |-> TRUE, keys |-> selectors],
                          VerifyOutcome("TypeError", 575, 1, {}, {}, {}))
    /\ UNCHANGED <<fsVars, built, nbuilds, clock, manifested, edits>>
    /\ UNCHANGED <<verVars, cfgVars, relVars, syncVars>>

(* Specification SpecVerify: builds and manifests written into the artifact *)
(* tree, files changed or deleted behind the program, and verification      *)

InitVerify ==
    /\ tags = [r \in Repos |-> {}] /\ call = NoCall
    /\ \E outs \in OutputLists :
          builds = [r \in Repos |-> IF r = "node/a" THEN outs ELSE << <<"out", "a.bin">> >>]
    /\ cwdIsRoot = TRUE
    /\ FixedRelease /\ FixedFiles /\ FixedSuper

NextVerify ==
    \/ \E key \in Repos, version \in DirVersions : Call_build(key, version)
    \/ \E mode \in {"release", "hotfix"} : Call_write_manifest(mode)
    \/ \E path \in Paths, b \in Bytes : Tamper(path, b)
    \/ \E path \in Paths : Delete(path)
    \/ \E version \in DirVersions, f \in Filters : Call_verify_release(version, f)
    \/ \E version \in DirVersions, sel \in {{}, {"node/a"}} :
          Main_release_verify(version, sel)

SpecVerify == InitVerify /\ [][NextVerify]_vars

----------------------------------------------------------------------------
(* Specification SpecVersion: the VersionResolver functions called on a     *)
(* repository with any set of tags of the pool                              *)

InitVersion ==
    /\ \E ts \in SUBSET TagPool : tags = [r \in Repos |-> IF r = "node/a" THEN ts ELSE {}]
    /\ call = NoCall
    /\ FixedConfig /\ FixedRelease /\ FixedFiles /\ FixedSuper

Call_latest_version(r) ==
    /\ call' = CallRecord("latest_version", r, "", <<>>, latest_version(Dir(r)))
    /\ UNCHANGED <<tags, cfgVars, relVars, fsVars, syncVars, vfyVars>>

Call_bump_version(r, bump) ==
    /\ call' = CallRecord("bump_version", r, bump, <<>>, bump_version(Dir(r), bump))
    /\ UNCHANGED <<tags, cfgVars, relVars, fsVars, syncVars, vfyVars>>

Call_next_hotfix(base, r) ==
    /\ call' = CallRecord("next_hotfix", r, "", base, next_hotfix(base, Dir(r)))
    /\ UNCHANGED <<tags, cfgVars, relVars, fsVars, syncVars, vfyVars>>

NextVersion ==
    \/ \E r \in Repos : Call_latest_version(r)
    \/ \E r \in Repos, bump \in BumpArgs : Call_bump_version(r, bump)
    \/ \E r \in Repos, base \in BaseArgs : Call_next_hotfix(base, r)

SpecVersion == InitVersion /\ [][NextVersion]_vars

----------------------------------------------------------------------------
(* The tag grammar as the specification states it, for the claims *)

\* t is the standard tag of the numeric components M, m, p
IsStandard(t) == SEMVER(t).ok
Major(t) == PyInt(SEMVER(t).g[1])
Minor(t) == PyInt(SEMVER(t).g[2])
Patch(t) == PyInt(SEMVER(t).g[3])

\* t is <B>-hotfix.<digits> for the standard tag B
IsHotfixOf(t, B) ==
    /\ IsStandard(B)
    /\ Len(t) > Len(B) + Len(HotfixInfix)
    /\ SubSeq(t, 1, Len(B) + Len(HotfixInfix)) = B \o HotfixInfix
    /\ AllDigits(SubSeq(t, Len(B) + Len(HotfixInfix) + 1, Len(t)))

OrdinalOf(t, B) == PyInt(SubSeq(t, Len(B) + Len(HotfixInfix) + 1, Len(t)))

IsHotfix(t) == \E k \in 1..Len(t) : IsHotfixOf(t, SubSeq(t, 1, k))

BaseOf(t) == SubSeq(t, 1, CHOOSE k \in 1..Len(t) : IsHotfixOf(t, SubSeq(t, 1, k)))

\* (major, minor, patch, hotfix ordinal), 0 for a standard tag
NumKey(t) ==
    IF IsStandard(t) THEN <<Major(t), Minor(t), Patch(t), 0>>
    ELSE <<Major(BaseOf(t)), Minor(BaseOf(t)), Patch(BaseOf(t)), OrdinalOf(t, BaseOf(t))>>

KeyLess(a, b) ==
    \E i \in 1..4 : a[i] < b[i] /\ \A j \in 1..(i - 1) : a[j] = b[j]

----------------------------------------------------------------------------
(* Claims C1..C3, under SpecVersion *)

\* C1: when the latest tag of the repository is a standard version vM.m.p,
\* bump_version returns v(M+1).0.0 for major, vM.(m+1).0 for minor and
\* vM.m.(p+1) for patch; with no tags at all, minor returns v0.1.0.
C1_BumpOneComponent ==
    (call.fn = "bump_version" /\ call.bump \in {"major", "minor", "patch"}) =>
        LET latest == latest_version(Dir(call.repo)).ret IN
        /\ IsStandard(latest) =>
              /\ call.exc = ""
              /\ call.bump = "major" =>
                    call.ret = FormatVersion(Major(latest) + 1, 0, 0)
              /\ call.bump = "minor" =>
                    call.ret = FormatVersion(Major(latest), Minor(latest) + 1, 0)
              /\ call.bump = "patch" =>
                    call.ret = FormatVersion(Major(latest), Minor(latest), Patch(latest) + 1)
        /\ (tags[call.repo] = {} /\ call.bump = "minor") =>
              call.ret = <<"v", "0", ".", "1", ".", "0">>

\* C1 witness: a major bump of v1.2.3 has returned v2.0.0
C1_Witness ==
    /\ call.fn = "bump_version" /\ call.bump = "major"
    /\ latest_version(Dir(call.repo)).ret = <<"v", "1", ".", "2", ".", "3">>
    /\ call.ret = <<"v", "2", ".", "0", ".", "0">>

\* C2: latest_version returns the tag that is greatest by numeric comparison
\* of (major, minor, patch, hotfix ordinal) among the tags matching the
\* standard or hotfix grammar, and v0.0.0 when no tag matches.
C2_LatestIsNumericGreatest ==
    call.fn = "latest_version" =>
        LET matching == {t \in tags[call.repo] : IsStandard(t) \/ IsHotfix(t)} IN
        IF matching = {} THEN call.ret = <<"v", "0", ".", "0", ".", "0">>
        ELSE /\ call.ret \in matching
             /\ \A t \in matching : ~KeyLess(NumKey(call.ret), NumKey(t))

\* C3: next_hotfix(B, repo) returns B-hotfix.(n+1), n the numeric maximum of
\* the ordinals of the hotfix tags whose base is exactly B (0 when none);
\* other tags do not matter.
C3_NextHotfixIsMaxPlusOne ==
    call.fn = "next_hotfix" =>
        LET B == call.base
            ords == {OrdinalOf(t, B) : t \in {u \in tags[call.repo] : IsHotfixOf(u, B)}}
            n == IF ords = {} THEN 0 ELSE MaxOf(ords)
        IN /\ call.exc = ""
           /\ call.ret = B \o HotfixInfix \o PyStr(n + 1)

\* C3 witness: with v1.2.0-hotfix.2 and v1.2.0-hotfix.10 (and a hotfix of
\* another base) tagged, next_hotfix("v1.2.0") has returned v1.2.0-hotfix.11
C3_Witness ==
    /\ call.fn = "next_hotfix"
    /\ call.base = <<"v", "1", ".", "2", ".", "0">>
    /\ FormatHotfix(call.base, 1) \notin tags[call.repo]
    /\ FormatHotfix(call.base, 2) \in tags[call.repo]
    /\ FormatHotfix(call.base, 10) \in tags[call.repo]
    /\ FormatHotfix(FormatVersion(1, 10, 0), 1) \in tags[call.repo]
    /\ call.ret = call.base \o HotfixInfix \o <<"1", "1">>

----------------------------------------------------------------------------
(* Claim C4, under SpecRelease *)

\* C4: the k-th hotfix release on a base resolves that base's ordinal k
\* (ordinals strictly increasing from 1), whatever releases on other bases
\* come in between and whichever selected repositories have a build
\* configuration.  No repository has a hotfix tag initially.
C4_HotfixOrdinalIsRank ==
    lastHotfix.rank > 0 =>
        lastHotfix.version = lastHotfix.base \o HotfixInfix \o PyStr(lastHotfix.rank)

----------------------------------------------------------------------------
(* What the specification says of a verification, for claims C5..C9 *)

\* The release directories that hold a manifest, and the manifest
ManifestDirs ==
    {d \in ReleaseDirs :
        /\ <<d[1], d[2], "manifest.json">> \in DOMAIN fs
        /\ IsJson(fs[<<d[1], d[2], "manifest.json">>])}

ManifestAt(d) == fs[<<d[1], d[2], "manifest.json">>]

ArtifactNames(d) == DOMAIN ManifestAt(d).artifacts

\* The manifests a verification of version with filter must not skip: the
\* recorded version is the requested one and, when a filter is supplied, the
\* recorded repository key is in it
Requested(version, filter) ==
    {d \in ManifestDirs :
        /\ ManifestAt(d).version = version
        /\ filter.given => ManifestAt(d).repo \in filter.keys}

\* Nothing in d has changed since its manifest was written
Unmodified(d) == d \in DOMAIN manifested /\ DirFiles(fs, d) = manifested[d]

\* Since the manifest of d was written, the content of n, and nothing else in
\* d, has been changed
OnlyChanged(d, n) ==
    /\ d \in DOMAIN manifested
    /\ DOMAIN DirFiles(fs, d) = DOMAIN manifested[d]
    /\ n \in DOMAIN manifested[d]
    /\ \A m \in DOMAIN manifested[d] : (fs[<<d[1], d[2], m>>] # manifested[d][m]) <=> (m = n)

ArtifactMissing(d, n) == <<d[1], d[2], n>> \notin DOMAIN fs

ArtifactChanged(d, n) ==
    /\ ~ArtifactMissing(d, n)
    /\ Digest(fs[<<d[1], d[2], n>>]) # ManifestAt(d).artifacts[n].sha256

Outcomes == vr.ok \cup vr.missing \cup vr.mismatch

----------------------------------------------------------------------------
(* Claims C5..C9, under SpecVerify *)

\* C5: a verification of a version whose release directories are as build and
\* write_manifest left them records success for every artifact of their
\* manifests and reports no failure.
C5_RoundTrip ==
    vr.fn = "verify_release" =>
        LET req == Requested(vr.version, vr.filter) IN
        /\ \A d \in req : Unmodified(d) =>
              \A n \in ArtifactNames(d) : <<d, n>> \in vr.ok
        /\ (req # {} /\ \A d \in req : Unmodified(d)) =>
              (vr.exc = "" /\ vr.status = 0)

\* C6: when the content of exactly one manifested artifact was changed after
\* the manifest was written, verification reports a hash mismatch for that
\* artifact and no other of the release, success for the untouched ones, and
\* ends in failure.
C6_TamperOne ==
    vr.fn = "verify_release" =>
        \A d \in Requested(vr.version, vr.filter) : \A n \in ArtifactNames(d) :
            OnlyChanged(d, n) =>
                /\ <<d, n>> \in vr.mismatch
                /\ \A m \in ArtifactNames(d) \ {n} :
                      <<d, m>> \in vr.ok /\ <<d, m>> \notin vr.mismatch
                /\ vr.exc = "SystemExit" /\ vr.status # 0

\* C7: when an artifact is missing or mismatched, every artifact of every
\* manifest of the requested version still gets its own outcome: pass,
\* missing or mismatch.
C7_NoEarlyHalt ==
    vr.fn = "verify_release" =>
        LET req == Requested(vr.version, vr.filter) IN
        (\E d \in req : \E n \in ArtifactNames(d) :
              ArtifactMissing(d, n) \/ ArtifactChanged(d, n)) =>
            \A d \in req : \A n \in ArtifactNames(d) :
                /\ ArtifactMissing(d, n) => <<d, n>> \in vr.missing
                /\ ArtifactChanged(d, n) => <<d, n>> \in vr.mismatch
                /\ (~ArtifactMissing(d, n) /\ ~ArtifactChanged(d, n)) => <<d, n>> \in vr.ok

\* C8: verification ends with the distinguished non-zero status exactly when
\* an artifact of a manifest that is not skipped is missing or has another
\* hash than the recorded one; otherwise it returns normally, status zero.
C8_ExitStatus ==
    vr.fn = "verify_release" =>
        LET bad == \E d \in Requested(vr.version, vr.filter) : \E n \in ArtifactNames(d) :
                      ArtifactMissing(d, n) \/ ArtifactChanged(d, n)
        IN /\ bad => (vr.exc = "SystemExit" /\ vr.status = 1)
           /\ ~bad => (vr.exc = "" /\ vr.status = 0)

\* C9: with a repository filter (also an empty one, also one the command
\* dispatch makes from selectors) a manifest is evaluated if and only if its
\* version is the requested one and its repository key is in the filter.
C9_FilterIff ==
    (vr.fn # "" /\ vr.filter.given) =>
        \A d \in ManifestDirs : \A n \in ArtifactNames(d) :
            (<<d, n>> \in Outcomes) <=> (d \in Requested(vr.version, vr.filter))

----------------------------------------------------------------------------
(* Claim C10, under SpecSync *)

\* C10: a second sync_to_super of the same child, directly after one that
\* succeeded and with nothing changed in between, does not fail and leaves
\* the content tracked under the prefix as the first call left it.
C10_SyncIdempotent ==
    sync.repeat => (sync.exc = "" /\ sync.after = sync.before)

----------------------------------------------------------------------------
(* Claims C11.., under SpecConcurrent and SpecRelease *)

\* files holds everything before holds, unchanged
Extends(files, before) ==
    \A q \in DOMAIN before : q \in DOMAIN files /\ files[q] = before[q]

\* C11: when a step of a release fails, the invocation is over (it is in the
\* failed state and takes no further step: the only change to its record is
\* a new invocation), and the step that fails takes nothing back: the tags,
\* the files of the artifact tree, the artifact repository's commit and the
\* subtrees merged into the aggregating repository stay.
C11_AbortNoRollback ==
    [][\A p \in Procs :
          /\ rel[p].exc # "" => rel[p].pc = "failed"
          /\ (rel[p].exc # "" /\ rel'[p] # rel[p]) =>
                (released' = released + 1 /\ rel'[p].log = <<>>)
          /\ (rel[p].exc = "" /\ rel'[p].exc # "") =>
                /\ \A r \in Repos : tags[r] \subseteq tags'[r]
                /\ Extends(fs', fs)
                /\ Extends(artHead', artHead)
                /\ \A x \in Prefixes : superTree'[x] >= superTree[x]
                /\ rel'[p].log # <<>> =>
                      SubSeq(rel'[p].log, 1, Len(rel[p].log)) = rel[p].log
      ]_vars

\* A release has failed at the push of the artifact repository (line 399):
\* the commit of line 398 stands, and no synchronisation was begun
C11_Witness ==
    \E p \in Procs :
        /\ rel[p].pc = "failed" /\ rel[p].line = 399
        /\ artHead = fs /\ artHead # NoFiles
        /\ \A k \in DOMAIN rel[p].log : rel[p].log[k][1] # "sync"
        /\ \E q \in Procs : rel[q].pc = "failed" /\ rel[q].line = 398

\* C12: a standard release whose bump keyword is none of major, minor, patch,
\* or whose reference repository's latest tag is a hotfix tag, ends with the
\* configuration error (WMException) before any step on a repository: nothing
\* is checked out, built, written or tagged.
C12_BadBumpIsConfigError ==
    \A p \in Procs :
        (/\ rel[p].pc # "idle"
         /\ rel[p].base = <<>> /\ rel[p].bump # ""
         /\ \/ rel[p].bump \notin {"major", "minor", "patch"}
            \/ IsHotfix(latest_version(Dir(rel[p].repos[1])).ret))
        => (rel[p].pc = "failed" /\ rel[p].exc = "WMException" /\ rel[p].log = <<>>)

----------------------------------------------------------------------------
(* Claim C13, under SpecVerify *)

----------------------------------------------------------------------------
(* Claim C14, under SpecSync *)

\* C14: sync_to_super takes the subtree add exactly when the prefix is absent
\* from the tree of the aggregating repository's HEAD, and the subtree pull
\* exactly when it is present; a first sync into a repository with commits is
\* an add.
C14_AddIffAbsent ==
    sync.prefix # "" =>
        /\ (sync.path = "add") <=> (sync.before = 0)
        /\ (sync.path = "pull") <=> (sync.before # 0)

----------------------------------------------------------------------------
(* Claims C15.., under SpecRelease and SpecConcurrent *)

\* Step k of the log turns to the build of a repository: the loop body for a
\* repository with a build configuration (line 383), or build() itself
TurnsToBuild(log, k) ==
    \/ log[k][1] = "build"
    \/ log[k][1] = "loop" /\ log[k][2] \in DOMAIN builds

\* C15: when a release turns to the build of any repository, the checkout and
\* pull of every selected repository has been done before; and a release
\* whose checkout or pull failed has turned to no build.
C15_CheckoutBeforeBuild ==
    \A p \in Procs :
        LET log == rel[p].log
            repos == rel[p].repos
        IN /\ \A k \in DOMAIN log : TurnsToBuild(log, k) =>
                 \A i \in DOMAIN repos :
                     \E j \in 1..(k - 1) : log[j] = <<"checkout", repos[i]>>
           /\ (rel[p].pc = "failed" /\ rel[p].line \in {375, 376}) =>
                 \A k \in DOMAIN log : ~TurnsToBuild(log, k)

\* A release of two repositories has turned to the build of the second
C15_Witness ==
    \E p \in Procs :
        /\ Len(rel[p].repos) = 2
        /\ rel[p].repos[1] \notin DOMAIN builds
        /\ \E k \in DOMAIN rel[p].log :
              TurnsToBuild(rel[p].log, k) /\ rel[p].log[k][2] = rel[p].repos[2]

\* C16: each selected repository with a build configuration goes through
\* build, manifest, tag and push of tags, in that order, before the release
\* turns to the next one; the artifact repository is staged and committed
\* once, after the last repository, then pushed; the synchronisation comes
\* last, after that push.
C16_StepOrder ==
    \A p \in Procs :
        LET log == rel[p].log
            n == Len(log)
            repos == rel[p].repos
        IN /\ \A k \in DOMAIN log :
                 (/\ log[k][1] = "loop" /\ log[k][2] \in DOMAIN builds
                  /\ (k < n \/ rel[p].pc \in {"failed", "done"}))
                 => (k < n /\ log[k + 1] = <<"build", log[k][2]>>)
           /\ \A k \in DOMAIN log :
                 (/\ log[k][1] = "loop" /\ log[k][2] \in DOMAIN builds
                  /\ \E j \in (k + 1)..n : log[j][1] \in {"loop", "add"})
                 => (/\ k + 4 <= n
                     /\ SubSeq(log, k + 1, k + 4) =
                           [i \in 1..4 |-> << <<"build", "manifest", "tag", "push">>[i],
                                              log[k][2] >>])
           /\ \A k \in DOMAIN log : log[k][1] = "commit" =>
                 /\ \A i \in DOMAIN repos : \E j \in 1..(k - 1) : log[j] = <<"loop", repos[i]>>
                 /\ \A j \in DOMAIN log : log[j][1] = "commit" => j = k
                 /\ k < n => log[k + 1] = <<"push", ARTIFACT_REPO_NAME>>
           /\ \A k \in DOMAIN log : log[k][1] = "sync" =>
                 (k = n /\ k > 1 /\ log[k - 1] = <<"push", ARTIFACT_REPO_NAME>>)

\* C17: a selected repository without build configuration is passed over: no
\* build, manifest or tag step is begun for it, and a release whose selected
\* repositories all lack a build configuration does not fail in the loop over
\* the repositories or at the staging and commit of the artifact repository
\* (lines 378-398), run from the workspace root.
C17_UnconfiguredSkipped ==
    \A p \in Procs :
        LET log == rel[p].log
            repos == rel[p].repos
        IN /\ \A k \in DOMAIN log :
                 (log[k][2] \in Repos /\ log[k][2] \notin DOMAIN builds)
                 => log[k][1] \in {"checkout", "loop"}
           /\ (/\ repos # <<>> /\ cwdIsRoot
               /\ \A i \in DOMAIN repos : repos[i] \notin DOMAIN builds
               /\ rel[p].pc = "failed")
              => rel[p].line \notin 378..398

----------------------------------------------------------------------------
(* Claim C18, under SpecConcurrent *)

\* The invocation of p has begun step name for repository key
Begun(p, name, key) == \E k \in DOMAIN rel[p].log : rel[p].log[k] = <<name, key>>

\* C18: two concurrent releases are not excluded from each other; when both
\* have resolved the same version and both have turned to the same repository
\* with a build configuration, each of them writes the manifest of that
\* repository and version (unless its own build or manifest step fails), and
\* when both have written it one of them fails at the tag step (line 394).
C18_RaceReachesTagStep ==
    \A p, q \in Procs : \A r \in DOMAIN builds :
        (/\ p # q
         /\ rel[p].version # <<>> /\ rel[p].version = rel[q].version
         /\ Begun(p, "loop", r) /\ Begun(q, "loop", r)
         /\ rel[p].pc \in {"failed", "done"} /\ rel[q].pc \in {"failed", "done"})
        => /\ \A x \in {p, q} :
                 \/ Begun(x, "manifest", r)
                 \/ rel[x].pc = "failed" /\ rel[x].line \in {384, 386}
           /\ (Begun(p, "manifest", r) /\ Begun(q, "manifest", r)) =>
                 /\ <<r, rel[p].version, "manifest.json">> \in DOMAIN fs
                 /\ \E x \in {p, q} : rel[x].pc = "failed" /\ rel[x].line = 394

\* C19: the version a release resolves, from its first repository, is not yet
\* a tag of any selected repository with a build configuration.
C19_ResolvedVersionIsFresh ==
    \A p \in Procs :
        rel[p].version # <<>> =>
            \A i \in DOMAIN rel[p].repos :
                rel[p].repos[i] \in DOMAIN builds =>
                    rel[p].version \notin tags[rel[p].repos[i]]

----------------------------------------------------------------------------
(* Claim C20, under SpecRelease *)

----------------------------------------------------------------------------
(* Claim C21, under SpecRelease and SpecConcurrent *)

\* The invocation of p has created the tag rel[p].version on repository r:
\* git tag -a (line 394) returned, so that git push --tags (line 395) was begun
TagCreated(p, r) == r \in Repos /\ Begun(p, "push", r)

\* C21: every tag a release has created on a repository has a manifest at
\* artifacts/<key>/<version> that records the repository's key, the tag and
\* the mode of the release.
C21_TagHasManifest ==
    \A p \in Procs : \A r \in Repos :
        TagCreated(p, r) =>
            LET path == <<r, rel[p].version, "manifest.json">> IN
            /\ rel[p].version \in tags[r]
            /\ path \in DOMAIN fs
            /\ IsJson(fs[path])
            /\ fs[path].repo = r
            /\ fs[path].version = rel[p].version
            /\ fs[path].mode = rel[p].mode

\* A release has created a tag
C21_Witness == \E p \in Procs : \E r \in Repos : TagCreated(p, r)

====
